---- MODULE Spec2Model ----
(***************************************************************************)
(* Model of the anomaly / risk-scoring pipeline of CleoGarda               *)
(* (src/core/jobs/cleo_alyssium_cron_scheduler.py and its variants):       *)
(* transaction ingestion, anomaly detection, summary statistics, weighted  *)
(* risk scoring and risk classification.                                   *)
(*                                                                         *)
(* Python floats are modelled as tagged numbers: a finite value on a fixed *)
(* decimal grid, NaN, +Infinity or -Infinity.  Transaction values and      *)
(* thresholds are in whole units; risk inputs, weights and scores are in   *)
(* thousandths (a score of 260 is 0.26).                                   *)
(***************************************************************************)
EXTENDS Integers, Sequences, FiniteSets, TLC

VARIABLES
    session,        \* "none" | "live" | "failed": WalletAnalyzer construction state
    initArgs,       \* arguments of the WalletAnalyzer(...) call
    ctorError,      \* exception class raised by WalletAnalyzer.__init__, "" if none
    address,        \* self.address
    threshold,      \* self.threshold
    transactions,   \* self.transactions
    rawList,        \* argument of the last load_transactions call
    loadError,      \* exception class escaping the last load_transactions, "" if none
    skipped,        \* number of "Skipping invalid tx" warnings of the last load
    loadLog,        \* log records emitted by the last load_transactions call
    loadReturn,     \* return value of the last load_transactions call
    queried,        \* read-only methods called since the last load_transactions
    repeated,       \* the last call repeated a method already in queried
    lastOp,         \* last WalletAnalyzer method that returned
    anomalies,      \* return value of the last detect_anomalies
    summary,        \* return value of the last summarize_values
    scorePc,        \* "off" | "start" | "given" | "scored" | "raised" | "token_scored"
                    \* | "classified"
    scoreArgs,      \* arguments of calculate_risk_score
    score,          \* return value of calculate_risk_score
    tokenScore,     \* return value of token_service.calculate_risk_score, a quotient
    scoreError,     \* exception class raised by calculate_risk_score, "" if none
    classifyArg,    \* argument of the classification call
    classifier,     \* which classification function ran
    category,       \* return value of the classification call
    ssSession,      \* "off" | "none" | "live": session_service.WalletAnalyzer
    ssThreshold,    \* its self.threshold
    ssTransactions, \* its self.transactions
    ssError,        \* exception class raised by its last operation, "" if none
    ssLastOp,       \* its last operation: a method, or a caller's field assignment
    ssAnomalies,    \* return value of its last detect_anomalies
    rpPc,           \* "off" | "start" | "scored1" | "classified1" | "scored2"
                    \* | "classified2" | "raised": a process scoring the same inputs twice
    scorer,         \* module whose calculate_risk_score and classify_risk it calls
    veilDefaults,   \* the default weights dict object of veil_guard.calculate_risk_score
    ieeeTie,        \* "below" | "above": where the binary float of an exact decimal
                    \* tie lies, for the sums of this process
    rpArgs,         \* the arguments of both calls
    rpError,        \* exception class raised by a call, "" if none
    score1,         \* return value of the first calculate_risk_score call
    category1,      \* return value of the first classify_risk call
    score2,         \* return value of the second calculate_risk_score call
    category2,      \* return value of the second classify_risk call
    earlierCalls,   \* calls made with other arguments before or between the two
    fetchPc,        \* "off" | "idle" | "loop" | "returned" | "raised": fetch_json
    retries,        \* its retries argument
    backoff_ms,     \* its backoff_ms argument
    attempt,        \* its loop variable
    last_error,     \* its last_error: an exception class, "" for None
    attempts,       \* the GET requests it made: attempt number and what came back
    sleeps,         \* the delays it slept, in milliseconds, in order
    fetchResult,    \* its return value: a parsed body, "None", "" before it returns
    fetchError,     \* exception class escaping fetch_json, "" if none
    jsonErrorClass, \* what Response.json() of the installed requests raises on a
                    \* body that is not JSON: a RequestException, or a ValueError
    vgSession,      \* "off" | "none" | "live": veil_guard.WalletAnalyzer
    vgTransactions, \* its self.transactions
    vgRawList,      \* argument of its last load call
    vgError,        \* exception class escaping its last load call, "" if none
    vgLoads,        \* number of load calls made on it
    spSession,      \* "off" | "none" | "live" | "failed": a SignalProcessor
    history_size,   \* the history_size it was constructed with
    history,        \* its self.history: (timestamp, value) entries, oldest first
    stored,         \* every value handed to store_signal, in call order
    utcnow          \* the reading of the clock at the last store_signal

walletVars == <<session, initArgs, ctorError, address, threshold, transactions,
                rawList, loadError, skipped, loadLog, loadReturn, queried,
                repeated, lastOp, anomalies, summary>>

scoreVars == <<scorePc, scoreArgs, score, tokenScore, scoreError, classifyArg,
               classifier, category>>

sessionVars == <<ssSession, ssThreshold, ssTransactions, ssError, ssLastOp,
                 ssAnomalies>>

repeatVars == <<rpPc, scorer, veilDefaults, ieeeTie, rpArgs, rpError, score1,
                category1, score2, category2, earlierCalls>>

fetchVars == <<fetchPc, retries, backoff_ms, attempt, last_error, attempts,
               sleeps, fetchResult, fetchError, jsonErrorClass>>

veilVars == <<vgSession, vgTransactions, vgRawList, vgError, vgLoads>>

signalVars == <<spSession, history_size, history, stored, utcnow>>

extraVars == <<repeatVars, fetchVars, veilVars, signalVars>>

vars == <<walletVars, scoreVars, sessionVars, extraVars>>

(***************************************************************************)
(* Bounds                                                                  *)
(***************************************************************************)
MaxRaw == 3         \* longest raw list of a session's first load_transactions
MaxReload == 1      \* longest raw list of a later load_transactions
MaxSsRaw == 2       \* longest raw list of session_service.load_transactions
MaxEarlier == 1     \* calls with other arguments around two identical calls
MaxRetries == 2     \* largest retries argument of fetch_json
MaxVgRaw == 2       \* longest raw list of veil_guard.WalletAnalyzer.load
MaxVgLoads == 2     \* load calls on one veil_guard.WalletAnalyzer
MaxHistory == 2     \* largest history_size of a SignalProcessor
MaxStores == 4      \* store_signal calls on one SignalProcessor
MaxFlags == 2       \* longest flag list handed to calculate_risk_score

(***************************************************************************)
(* Python floats                                                           *)
(***************************************************************************)
Fin(n) == [k |-> "fin", n |-> n]
NaN    == [k |-> "nan", n |-> 0]
PInf   == [k |-> "inf", n |-> 1]
NInf   == [k |-> "inf", n |-> -1]

IsNaN(x)    == x.k = "nan"
IsFinite(x) == x.k = "fin"

\* a < b on floats: every comparison with NaN is False
Lt(a, b) ==
    IF a.k = "nan" \/ b.k = "nan" THEN FALSE
    ELSE IF a.k = "inf" THEN a.n < 0 /\ ~(b.k = "inf" /\ b.n < 0)
    ELSE IF b.k = "inf" THEN b.n > 0
    ELSE a.n < b.n

Gt(a, b) == Lt(b, a)

\* a == b on floats (NaN is not equal to itself)
FEq(a, b) == a.k # "nan" /\ b.k # "nan" /\ a = b

\* a + b on floats
Add(a, b) ==
    IF a.k = "nan" \/ b.k = "nan" THEN NaN
    ELSE IF a.k = "inf" /\ b.k = "inf" THEN (IF a.n = b.n THEN a ELSE NaN)
    ELSE IF a.k = "inf" THEN a
    ELSE IF b.k = "inf" THEN b
    ELSE Fin(a.n + b.n)

\* builtin max(a, b) / min(a, b): keep the first unless the second compares better
PyMax(a, b) == IF Gt(b, a) THEN b ELSE a
PyMin(a, b) == IF Lt(b, a) THEN b ELSE a

(***************************************************************************)
(* Loosely typed Python values found in raw records.  A string is its      *)
(* content without trailing "Z" characters (s) and the number of trailing  *)
(* "Z" characters (zs).                                                    *)
(***************************************************************************)
PyMissing     == [t |-> "missing",  s |-> "", zs |-> 0, v |-> Fin(0)]
PyNone        == [t |-> "none",     s |-> "", zs |-> 0, v |-> Fin(0)]
PyStr(s, zs)  == [t |-> "str",      s |-> s,  zs |-> zs, v |-> Fin(0)]
PyNum(x)      == [t |-> "num",      s |-> "", zs |-> 0, v |-> x]
\* a datetime object: s is "aware" or "naive", v its instant
PyDatetime(aw, i) == [t |-> "datetime", s |-> aw, zs |-> 0, v |-> Fin(i)]

\* dict.get(key): None when the key is absent
Get(field) == IF field.t = "missing" THEN PyNone ELSE field

\* truth value of a Python object
Truthy(x) ==
    CASE x.t = "missing"  -> FALSE
      [] x.t = "none"     -> FALSE
      [] x.t = "str"      -> ~(x.s = "" /\ x.zs = 0)
      [] x.t = "num"      -> ~(x.v.k = "fin" /\ x.v.n = 0)
      [] x.t = "datetime" -> TRUE

\* x or y
PyOr(x, y) == IF Truthy(x) THEN x ELSE y

\* strings float() can parse, with their values
NumericStrings == {"2", "nan"}
FloatOfString(s) == IF s = "2" THEN Fin(2) ELSE NaN

\* float(x): the converted number, or the exception raised
PyFloat(x) ==
    CASE x.t = "num" -> [exc |-> "", v |-> x.v]
      [] x.t = "str" ->
            IF x.zs = 0 /\ x.s \in NumericStrings
            THEN [exc |-> "", v |-> FloatOfString(x.s)]
            ELSE [exc |-> "ValueError", v |-> NaN]
      [] OTHER -> [exc |-> "TypeError", v |-> NaN]

\* str(x) of the hash expression, which is a truthy string or ""
PyStrOf(x) == IF x.t = "str" THEN x.s ELSE ""

(***************************************************************************)
(* Transaction                                                             *)
(***************************************************************************)
\* strings datetime.fromisoformat accepts, with the datetime they denote
IsoStrings == {"2024-01-01T00:00:00", "2024-01-02T00:00:00+00:00"}
IsoInstant(s) == IF s = "2024-01-01T00:00:00" THEN 1 ELSE 2

\* datetime.fromisoformat(iso)
FromIsoFormat(x) ==
    IF x.zs = 0 /\ x.s \in IsoStrings
    THEN [exc |-> "", inst |-> IsoInstant(x.s)]
    ELSE [exc |-> "ValueError", inst |-> 0]

\* ts.rstrip("Z"): every trailing "Z" is removed
RStripZ(x) == PyStr(x.s, 0)

\* the tz-aware datetime of an instant (naive values are taken as UTC)
UtcDatetime(i) == [inst |-> i, tz |-> "UTC"]

NoDatetime == [inst |-> 0, tz |-> ""]

_parse_timestamp(ts) ==
    IF ts.t = "datetime"
    THEN [exc |-> "", dt |-> UtcDatetime(ts.v.n)]
    ELSE IF ts.t # "str" \/ ~Truthy(ts)
    THEN [exc |-> "ValueError", dt |-> NoDatetime]
    ELSE LET dt == FromIsoFormat(RStripZ(ts))
         IN  IF dt.exc # ""
             THEN [exc |-> dt.exc, dt |-> NoDatetime]
             ELSE [exc |-> "", dt |-> UtcDatetime(dt.inst)]

Transaction(h, val, ts) == [tx_hash |-> h, value |-> val, timestamp |-> ts]

NoTransaction == Transaction("", NaN, NoDatetime)

\* a raw record: a dict with the four fields, or some other object
RawDict(h, th, val, ts) ==
    [isDict |-> TRUE, hash |-> h, tx_hash |-> th, value |-> val, timestamp |-> ts]

NotADict ==
    [isDict |-> FALSE, hash |-> PyMissing, tx_hash |-> PyMissing,
     value |-> PyMissing, timestamp |-> PyMissing]

\* from_dict reading only the "hash" key
from_dict_nofallback(data) ==
    IF ~data.isDict
    THEN [exc |-> "AttributeError", tx |-> NoTransaction]
    ELSE LET h   == PyStrOf(PyOr(Get(data.hash), PyStr("", 0)))
             val == PyFloat(PyOr(Get(data.value), PyNum(Fin(0))))
             ts  == _parse_timestamp(Get(data.timestamp))
         IN  IF val.exc # "" THEN [exc |-> val.exc, tx |-> NoTransaction]
             ELSE IF ts.exc # "" THEN [exc |-> ts.exc, tx |-> NoTransaction]
             ELSE [exc |-> "", tx |-> Transaction(h, val.v, ts.dt)]

\* Transaction.from_dict(data): the arguments are evaluated in order, and the
\* first exception raised leaves no Transaction
from_dict(data) ==
    IF ~data.isDict
    THEN [exc |-> "AttributeError", tx |-> NoTransaction]
    ELSE LET h   == PyStrOf(PyOr(Get(data.hash), PyOr(Get(data.tx_hash), PyStr("", 0))))
             val == PyFloat(PyOr(Get(data.value), PyNum(Fin(0))))
             ts  == _parse_timestamp(Get(data.timestamp))
         IN  IF val.exc # "" THEN [exc |-> val.exc, tx |-> NoTransaction]
             ELSE IF ts.exc # "" THEN [exc |-> ts.exc, tx |-> NoTransaction]
             ELSE [exc |-> "", tx |-> Transaction(h, val.v, ts.dt)]

(***************************************************************************)
(* Utility functions                                                       *)
(***************************************************************************)
\* _finite_nums without the `f == f` test: NaN values are kept
RECURSIVE _finite_nums_keepnan(_)
_finite_nums_keepnan(values) ==
    IF values = <<>> THEN <<>>
    ELSE <<Head(values)>> \o _finite_nums_keepnan(Tail(values))

RECURSIVE _finite_nums(_)
_finite_nums(values) ==
    IF values = <<>> THEN <<>>
    ELSE LET f == Head(values)
         IN  IF FEq(f, f) THEN <<f>> \o _finite_nums(Tail(values))
             ELSE _finite_nums(Tail(values))

\* builtin sum(nums), starting from 0
RECURSIVE PySum(_, _)
PySum(acc, nums) ==
    IF nums = <<>> THEN acc ELSE PySum(Add(acc, Head(nums)), Tail(nums))

\* builtin max(nums) / min(nums) of a non-empty list
RECURSIVE PyMaxOf(_, _)
PyMaxOf(best, nums) ==
    IF nums = <<>> THEN best ELSE PyMaxOf(PyMax(best, Head(nums)), Tail(nums))

RECURSIVE PyMinOf(_, _)
PyMinOf(best, nums) ==
    IF nums = <<>> THEN best ELSE PyMinOf(PyMin(best, Head(nums)), Tail(nums))

\* a summary: avg is the quotient sum / count, kept as the pair
Summary(s, c, mx, mn) ==
    [exc |-> "", avg |-> [sum |-> s, count |-> c], max |-> mx, min |-> mn]

ZeroSummary == Summary(Fin(0), 1, Fin(0), Fin(0))

NoSummary == [exc |-> "none", avg |-> [sum |-> Fin(0), count |-> 1],
              max |-> Fin(0), min |-> Fin(0)]

\* summarize_metrics without the guard for an empty list
summarize_metrics_noguard(values) ==
    LET nums == _finite_nums(values)
    IN  IF nums = <<>>
        THEN [exc |-> "ZeroDivisionError", avg |-> [sum |-> Fin(0), count |-> 0],
              max |-> Fin(0), min |-> Fin(0)]
        ELSE Summary(PySum(Fin(0), nums), Len(nums),
                     PyMaxOf(Head(nums), Tail(nums)),
                     PyMinOf(Head(nums), Tail(nums)))

summarize_metrics(values) ==
    LET nums == _finite_nums(values)
    IN  IF nums = <<>> THEN ZeroSummary
        ELSE Summary(PySum(Fin(0), nums), Len(nums),
                     PyMaxOf(Head(nums), Tail(nums)),
                     PyMinOf(Head(nums), Tail(nums)))

(***************************************************************************)
(* WalletAnalyzer                                                          *)
(***************************************************************************)
\* __init__ without the threshold check
WalletAnalyzerInit_nocheck(addr, thr) ==
    IF addr.t # "str" \/ ~Truthy(addr) THEN "ValueError" ELSE ""

\* WalletAnalyzer.__init__: the exception class raised, "" when it returns
WalletAnalyzerInit(addr, thr) ==
    IF addr.t # "str" \/ ~Truthy(addr) THEN "ValueError"
    ELSE IF Lt(thr, Fin(0)) THEN "ValueError"
    ELSE ""

\* the loop without its try/except: the first failing record aborts the load
RECURSIVE LoadLoop_noexcept(_, _, _)
LoadLoop_noexcept(raw, txs, nskip) ==
    IF raw = <<>> THEN [exc |-> "", txs |-> txs, skipped |-> nskip]
    ELSE LET r == from_dict(Head(raw))
         IN  IF r.exc = ""
             THEN LoadLoop_noexcept(Tail(raw), Append(txs, r.tx), nskip)
             ELSE [exc |-> r.exc, txs |-> txs, skipped |-> nskip]

\* the loop of load_transactions: a record whose from_dict raises is skipped
\* with a warning
RECURSIVE LoadLoop(_, _, _)
LoadLoop(raw, txs, nskip) ==
    IF raw = <<>> THEN [exc |-> "", txs |-> txs, skipped |-> nskip]
    ELSE LET r == from_dict(Head(raw))
         IN  IF r.exc = ""
             THEN LoadLoop(Tail(raw), Append(txs, r.tx), nskip)
             ELSE LoadLoop(Tail(raw), txs, nskip + 1)

\* load_transactions with the accepted transactions stored in reverse order
load_transactions_reversed(raw_list) ==
    LET r == LoadLoop(raw_list, <<>>, 0)
    IN  [r EXCEPT !.txs = [i \in 1..Len(r.txs) |-> r.txs[Len(r.txs) + 1 - i]]]

load_transactions(raw_list) == LoadLoop(raw_list, <<>>, 0)

\* a log record: its level, its message format and its integer argument
LogRecord(level, msg, n) == [level |-> level, msg |-> msg, n |-> n]

\* the warnings of the loop, one per record whose from_dict raises, each with
\* the index of the record
RECURSIVE SkipWarnings(_, _)
SkipWarnings(raw, idx) ==
    IF raw = <<>> THEN <<>>
    ELSE (IF from_dict(Head(raw)).exc = "" THEN <<>>
          ELSE <<LogRecord("WARNING", "Skipping invalid tx at index %d: %s", idx)>>)
         \o SkipWarnings(Tail(raw), idx + 1)

\* everything load_transactions logs: the warnings, then the number loaded
load_log(raw_list) ==
    SkipWarnings(raw_list, 0)
    \o <<LogRecord("INFO", "Loaded %d transactions for wallet %s",
                   Len(load_transactions(raw_list).txs))>>

\* the filter with >= in place of >
RECURSIVE detect_anomalies_ge(_, _)
detect_anomalies_ge(txs, thr) ==
    IF txs = <<>> THEN <<>>
    ELSE IF ~Lt(Head(txs).value, thr) /\ ~IsNaN(Head(txs).value)
         THEN <<Head(txs)>> \o detect_anomalies_ge(Tail(txs), thr)
         ELSE detect_anomalies_ge(Tail(txs), thr)

\* [tx for tx in txs if tx.value > thr]
RECURSIVE detect_anomalies(_, _)
detect_anomalies(txs, thr) ==
    IF txs = <<>> THEN <<>>
    ELSE IF Gt(Head(txs).value, thr)
         THEN <<Head(txs)>> \o detect_anomalies(Tail(txs), thr)
         ELSE detect_anomalies(Tail(txs), thr)

\* [tx.value for tx in txs]
ValuesOf(txs) == [i \in 1..Len(txs) |-> txs[i].value]

summarize_values(txs) == summarize_metrics(ValuesOf(txs))

(***************************************************************************)
(* Risk scoring.  Risk inputs, weights and scores are in thousandths:      *)
(* Unit is 1.0, 50 is 0.05 and a score of 260 is 0.26.                     *)
(***************************************************************************)
Unit == 1000

\* abs(x) on floats
Abs(x) ==
    IF x.k = "fin" THEN Fin(IF x.n < 0 THEN -x.n ELSE x.n)
    ELSE IF x.k = "inf" THEN PInf
    ELSE NaN

\* the weights argument: None, or a dict holding some of the three keys
NoWeights == [none |-> TRUE, price |-> PyMissing, liquidity |-> PyMissing,
              flags |-> PyMissing]

WeightsDict(wp, wl, wf) ==
    [none |-> FALSE, price |-> wp, liquidity |-> wl, flags |-> wf]

\* {"price": 0.4, "liquidity": 0.4, "flags": 0.2, **(weights or {})}
MergeWeights(weights) ==
    [price     |-> IF weights.price.t = "missing" THEN Fin(400) ELSE weights.price.v,
     liquidity |-> IF weights.liquidity.t = "missing" THEN Fin(400) ELSE weights.liquidity.v,
     flags     |-> IF weights.flags.t = "missing" THEN Fin(200) ELSE weights.flags.v]

\* the price term without abs()
Pct_noabs(price_change) ==
    PyMin(PyMax(PyFloat(price_change).v, Fin(0)), Fin(Unit))

\* min(max(abs(float(price_change)), 0.0), 1.0)
Pct(price_change) ==
    PyMin(PyMax(Abs(PyFloat(price_change).v), Fin(0)), Fin(Unit))

\* min(max(float(liquidity), 0.0), 1.0)
Liq(liquidity) == PyMin(PyMax(PyFloat(liquidity).v, Fin(0)), Fin(Unit))

\* 1.0 - liq, with liq not inverted
Illiq_noinvert(liq) == liq

\* 1.0 - liq
Illiq(liq) == IF liq.k = "fin" THEN Fin(Unit - liq.n) ELSE NaN

\* flags.count("suspicious")
RECURSIVE CountSuspicious(_)
CountSuspicious(flags) ==
    IF flags = <<>> THEN 0
    ELSE (IF Head(flags) = "suspicious" THEN 1 ELSE 0) + CountSuspicious(Tail(flags))

\* (flags.count("suspicious") / total_flags) if total_flags else 0.0, as a quotient
FlagScore(flags) ==
    IF Len(flags) # 0
    THEN [num |-> CountSuspicious(flags), den |-> Len(flags)]
    ELSE [num |-> 0, den |-> 1]

\* a real number num / den in units of 1.0, or NaN
Quot(num, den) == [k |-> "fin", num |-> num, den |-> den]
QNaN == [k |-> "nan", num |-> 0, den |-> 1]

\* pct * w["price"] + illiq * w["liquidity"] + flag_score * w["flags"]
RawScore(pct, illiq, flag_score, w) ==
    IF \/ pct.k # "fin" \/ illiq.k # "fin"
       \/ w.price.k # "fin" \/ w.liquidity.k # "fin" \/ w.flags.k # "fin"
    THEN QNaN
    ELSE Quot((pct.n * w.price.n + illiq.n * w.liquidity.n) * flag_score.den
                  + flag_score.num * Unit * w.flags.n,
              Unit * Unit * flag_score.den)

\* the raw sum returned without clamping
ClampScore_none(raw) == IF raw.k = "nan" THEN Quot(0, 1) ELSE raw

\* max(0.0, min(raw, 1.0)); min keeps a NaN raw and max then keeps 0.0
ClampScore(raw) ==
    LET m == IF raw.k = "fin" /\ raw.den < raw.num THEN Quot(1, 1) ELSE raw
    IN  IF m.k = "fin" /\ m.num > 0 THEN m ELSE Quot(0, 1)

\* rounding up to the next multiple of 0.01
Round2_up(x) ==
    LET q == (x.num * 100) \div x.den
        r == (x.num * 100) % x.den
    IN  IF r = 0 THEN { Fin(10 * q) } ELSE { Fin(10 * (q + 1)) }

\* round(score, 2), in thousandths: the nearest multiple of 0.01.  When the
\* decimal value lies exactly between two multiples, the binary float lies
\* just above or just below it, so either neighbour can be the result.
Round2(x) ==
    LET q == (x.num * 100) \div x.den
        r == (x.num * 100) % x.den
    IN  IF 2 * r < x.den THEN { Fin(10 * q) }
        ELSE IF 2 * r > x.den THEN { Fin(10 * (q + 1)) }
        ELSE { Fin(10 * q), Fin(10 * (q + 1)) }

\* x * w[key] with a float x: a TypeError unless the weight is a number
NonNumericWeight(weights) ==
    \/ weights.price.t \notin {"missing", "num"}
    \/ weights.liquidity.t \notin {"missing", "num"}
    \/ weights.flags.t \notin {"missing", "num"}

\* calculate_risk_score: the values it can return, or the exception it raises
calculate_risk_score(price_change, liquidity, flags, weights) ==
    LET w     == MergeWeights(weights)
        pct   == Pct(price_change)
        illiq == Illiq(Liq(liquidity))
        raw   == RawScore(pct, illiq, FlagScore(flags), w)
    IN  IF NonNumericWeight(weights) THEN [exc |-> "TypeError", values |-> {}]
        ELSE [exc |-> "", values |-> Round2(ClampScore(raw))]

\* x * w[key] of the token service: KeyError for an absent key, TypeError for
\* a weight that is not a number
TokenWeightError(x) ==
    IF x.t = "missing" THEN "KeyError" ELSE IF x.t # "num" THEN "TypeError" ELSE ""

\* calculate_risk_score of cleo_alyssium_token_service.py.  flags is a count.
\* w = weights or {"price": 0.5, "liquidity": 0.3, "flags": 0.2}: None and
\* the empty dict give the defaults, any other dict is used as it is
token_weights(weights) ==
    IF \/ weights.none
       \/ (weights.price.t = "missing" /\ weights.liquidity.t = "missing"
                /\ weights.flags.t = "missing")
    THEN [exc |-> "", price |-> Fin(500), liquidity |-> Fin(300), flags |-> Fin(200)]
    ELSE LET e1 == TokenWeightError(weights.price)
             e2 == TokenWeightError(weights.liquidity)
             e3 == TokenWeightError(weights.flags)
             e  == IF e1 # "" THEN e1 ELSE IF e2 # "" THEN e2 ELSE e3
         IN  IF e # ""
             THEN [exc |-> e, price |-> NaN, liquidity |-> NaN, flags |-> NaN]
             ELSE [exc |-> "", price |-> weights.price.v,
                   liquidity |-> weights.liquidity.v, flags |-> weights.flags.v]

\* min(abs(price_change), 1.0)
token_pct_change(price_change) == PyMin(Abs(price_change.v), Fin(Unit))

\* 1.0 - max(min(liquidity, 1.0), 0.0)
token_illiquidity(liquidity) ==
    Illiq(PyMax(PyMin(liquidity.v, Fin(Unit)), Fin(0)))

\* the score is returned as computed, without rounding
token_calculate_risk_score(price_change, liquidity, flags, weights) ==
    LET w   == token_weights(weights)
        raw == RawScore(token_pct_change(price_change), token_illiquidity(liquidity),
                        [num |-> flags, den |-> flags + 1], w)
    IN  IF w.exc # "" THEN [exc |-> w.exc, value |-> Quot(0, 1)]
        ELSE [exc |-> "", value |-> ClampScore(raw)]

\* classify_token with > at both boundaries
telemetry_classify_token_gt(risk_score) ==
    IF Gt(risk_score.v, Fin(800)) THEN "High Risk"
    ELSE IF Gt(risk_score.v, Fin(500)) THEN "Moderate Risk"
    ELSE "Low Risk"

\* classify_token of cleo_alyssium_telemetry.py: >= at both boundaries
telemetry_classify_token(risk_score) ==
    LET s == risk_score.v
    IN  IF ~Lt(s, Fin(800)) /\ ~IsNaN(s) THEN "High Risk"
        ELSE IF ~Lt(s, Fin(500)) /\ ~IsNaN(s) THEN "Moderate Risk"
        ELSE "Low Risk"

\* classify_risk with >= at both boundaries
classify_risk_ge(sc) ==
    LET s == PyFloat(sc).v
    IN  IF ~Lt(s, Fin(800)) /\ ~IsNaN(s) THEN "High Risk"
        ELSE IF ~Lt(s, Fin(500)) /\ ~IsNaN(s) THEN "Moderate Risk"
        ELSE "Low Risk"

\* classify_risk of cleo_alyssium_cron_scheduler.py
classify_risk(sc) ==
    LET s == PyFloat(sc).v
    IN  IF Gt(s, Fin(800)) THEN "High Risk"
        ELSE IF Gt(s, Fin(500)) THEN "Moderate Risk"
        ELSE "Low Risk"

\* classify_risk of cleo_alyssium_veil_guard.py
veil_classify_risk(sc) ==
    IF Gt(sc.v, Fin(800)) THEN "High Risk"
    ELSE IF Gt(sc.v, Fin(500)) THEN "Moderate Risk"
    ELSE "Low Risk"

\* classify_token of cleo_alyssium_session_service.py
session_classify_token(risk_score) ==
    IF Gt(risk_score.v, Fin(800)) THEN "High Risk"
    ELSE IF Gt(risk_score.v, Fin(500)) THEN "Moderate Risk"
    ELSE "Low Risk"

(***************************************************************************)
(* Inputs                                                                  *)
(***************************************************************************)
TsZ      == PyStr("2024-01-01T00:00:00", 1)         \* "2024-01-01T00:00:00Z"
TsNaive  == PyStr("2024-01-01T00:00:00", 0)
TsOffset == PyStr("2024-01-02T00:00:00+00:00", 0)
TsZZ     == PyStr("2024-01-01T00:00:00", 2)         \* "2024-01-01T00:00:00ZZ"
TsBad    == PyStr("not-a-date", 0)

H(s) == PyStr(s, 0)

\* values are in units of 5000: 3 stands for 15000.0
RecA == RawDict(H("a"), PyMissing, PyNum(Fin(3)), TsZ)
RecB == RawDict(H("b"), PyMissing, PyStr("bad", 0), PyMissing)

RawRecords ==
    { RecA, RecB,
      RawDict(H("c"), PyMissing, PyNum(Fin(1)), TsZ),
      RawDict(H("d"), PyMissing, PyNum(Fin(2)), TsNaive),
      RawDict(H("e"), PyMissing, PyStr("bad", 0), TsZ),
      RawDict(H("f"), PyMissing, PyMissing, TsZ),
      RawDict(H("g"), PyMissing, PyNum(Fin(3)), TsBad),
      RawDict(H("h"), PyMissing, PyNum(Fin(3)), TsZZ),
      RawDict(PyMissing, H("t"), PyStr("2", 0), TsOffset),
      RawDict(PyMissing, PyMissing, PyNum(Fin(-1)), PyDatetime("naive", 1)),
      RawDict(H(""), H("t"), PyNum(NaN), TsZ),
      NotADict }

RawLists == UNION { [1..n -> RawRecords] : n \in 0..MaxRaw }

Addresses == { H("0xabc"), H("") }

\* a later load_transactions of the same session: a valid and a malformed record
ReloadRecords == { RecA, RecB }

ReloadLists == UNION { [1..n -> ReloadRecords] : n \in 0..MaxReload }

Thresholds == { Fin(-1), Fin(0), Fin(2) }

PriceChanges ==
    { Fin(-1500), Fin(-50), Fin(0), Fin(50), Fin(500), Fin(505), Fin(1000),
      Fin(1500), NaN, PInf, NInf }

Liquidities ==
    { Fin(-500), Fin(0), Fin(500), Fin(900), Fin(1000), Fin(2000), NaN, PInf, NInf }

FlagNames == { "suspicious", "honeypot" }

FlagLists == UNION { [1..n -> FlagNames] : n \in 0..MaxFlags }

WeightsArgs ==
    { NoWeights } \cup
    { WeightsDict(wp, wl, wf) :
        wp \in { PyMissing, PyNum(Fin(0)), PyNum(Fin(400)), PyNum(Fin(1500)),
                 PyStr("0.4", 0) },
        wl \in { PyMissing, PyNum(Fin(400)), PyNum(Fin(-400)) },
        wf \in { PyMissing, PyNum(Fin(200)), PyNum(Fin(1500)), PyNone } }

ScoreArgs ==
    [price_change : PriceChanges, liquidity : Liquidities, flags : FlagLists,
     weights : WeightsArgs]

NoScoreArgs ==
    [price_change |-> Fin(0), liquidity |-> Fin(0), flags |-> <<>>,
     weights |-> NoWeights]

\* scores handed to a classification function on their own
ClassifyInputs ==
    { Fin(-100), Fin(0), Fin(260), Fin(499), Fin(500), Fin(501), Fin(505),
      Fin(799), Fin(800), Fin(801), Fin(1000), Fin(1500), NaN, PInf, NInf }

(***************************************************************************)
(* The analysis session                                                    *)
(***************************************************************************)
\* no scoring workflow is running
ScoreOff ==
    /\ scorePc = "off"
    /\ scoreArgs = NoScoreArgs
    /\ score = Fin(0)
    /\ tokenScore = Quot(0, 1)
    /\ scoreError = ""
    /\ classifyArg = Fin(0)
    /\ classifier = ""
    /\ category = ""

NoArgs == [address |-> PyNone, anomaly_threshold |-> Fin(0)]

WalletInit ==
    /\ session = "none"
    /\ initArgs = NoArgs
    /\ ctorError = ""
    /\ address = ""
    /\ threshold = Fin(0)
    /\ transactions = <<>>
    /\ rawList = <<>>
    /\ loadError = ""
    /\ skipped = 0
    /\ loadLog = <<>>
    /\ loadReturn = PyMissing
    /\ queried = {}
    /\ repeated = FALSE
    /\ lastOp = "none"
    /\ anomalies = <<>>
    /\ summary = NoSummary

\* no session_service session is running
SessionOff ==
    /\ ssSession = "off"
    /\ ssThreshold = Fin(0)
    /\ ssTransactions = <<>>
    /\ ssError = ""
    /\ ssLastOp = "none"
    /\ ssAnomalies = <<>>

\* the default weights of veil_guard.calculate_risk_score as written
VeilDefaultWeights == [price |-> Fin(400), liquidity |-> Fin(400), flags |-> Fin(200)]

\* no process is scoring the same inputs twice
RepeatOff ==
    /\ rpPc = "off"
    /\ scorer = ""
    /\ veilDefaults = VeilDefaultWeights
    /\ ieeeTie = "below"
    /\ rpArgs = NoScoreArgs
    /\ rpError = ""
    /\ score1 = Fin(0)
    /\ category1 = ""
    /\ score2 = Fin(0)
    /\ category2 = ""
    /\ earlierCalls = 0

\* no fetch_json call is in progress
FetchOff ==
    /\ fetchPc = "off"
    /\ retries = 0
    /\ backoff_ms = 0
    /\ attempt = 0
    /\ last_error = ""
    /\ attempts = <<>>
    /\ sleeps = <<>>
    /\ fetchResult = ""
    /\ fetchError = ""
    /\ jsonErrorClass = ""

\* no veil_guard.WalletAnalyzer is in use
VeilOff ==
    /\ vgSession = "off"
    /\ vgTransactions = <<>>
    /\ vgRawList = <<>>
    /\ vgError = ""
    /\ vgLoads = 0

\* no SignalProcessor is in use
SignalOff ==
    /\ spSession = "off"
    /\ history_size = 0
    /\ history = <<>>
    /\ stored = <<>>
    /\ utcnow = 0

ExtraOff == RepeatOff /\ FetchOff /\ VeilOff /\ SignalOff

Init == WalletInit /\ ScoreOff /\ SessionOff /\ ExtraOff

\* analyzer = WalletAnalyzer(addr, thr)
Construct(addr, thr) ==
    /\ session = "none"
    /\ initArgs' = [address |-> addr, anomaly_threshold |-> thr]
    /\ LET e == WalletAnalyzerInit(addr, thr)
       IN  IF e # ""
           THEN /\ session' = "failed"
                /\ ctorError' = e
                /\ UNCHANGED <<address, threshold, transactions>>
           ELSE /\ session' = "live"
                /\ ctorError' = ""
                /\ address' = addr.s
                /\ threshold' = thr
                /\ transactions' = <<>>
    /\ lastOp' = "init"
    /\ UNCHANGED <<rawList, loadError, skipped, loadLog, loadReturn, queried,
                   repeated, anomalies, summary>>
    /\ UNCHANGED <<scoreVars, sessionVars, extraVars>>

\* analyzer.load_transactions(raw); results returned earlier are dropped
LoadTransactions(raw) ==
    /\ session = "live"
    /\ LET r == load_transactions(raw)
       IN  /\ loadError' = r.exc
           /\ skipped' = r.skipped
           /\ transactions' = IF r.exc = "" THEN r.txs ELSE transactions
    /\ rawList' = raw
    /\ loadLog' = load_log(raw)
    /\ loadReturn' = PyNone
    /\ queried' = {}
    /\ repeated' = FALSE
    /\ lastOp' = "load"
    /\ anomalies' = <<>>
    /\ summary' = NoSummary
    /\ UNCHANGED <<session, initArgs, ctorError, address, threshold>>
    /\ UNCHANGED <<scoreVars, sessionVars, extraVars>>

\* detect_anomalies returning the flagged transactions newest first
DetectAnomalies_reversed ==
    /\ session = "live"
    /\ LET a == detect_anomalies(transactions, threshold)
       IN  anomalies' = [i \in 1..Len(a) |-> a[Len(a) + 1 - i]]
    /\ lastOp' = "detect"
    /\ queried' = queried \cup {"detect"}
    /\ repeated' = ("detect" \in queried)
    /\ UNCHANGED <<session, initArgs, ctorError, address, threshold, transactions,
                   rawList, loadError, skipped, loadLog, loadReturn, summary>>
    /\ UNCHANGED <<scoreVars, sessionVars, extraVars>>

\* analyzer.detect_anomalies()
DetectAnomalies ==
    /\ session = "live"
    /\ anomalies' = detect_anomalies(transactions, threshold)
    /\ lastOp' = "detect"
    /\ queried' = queried \cup {"detect"}
    /\ repeated' = ("detect" \in queried)
    /\ UNCHANGED <<session, initArgs, ctorError, address, threshold, transactions,
                   rawList, loadError, skipped, loadLog, loadReturn, summary>>
    /\ UNCHANGED <<scoreVars, sessionVars, extraVars>>

\* summarize_values consuming the list it summarises
SummarizeValues_consuming ==
    /\ session = "live"
    /\ summary' = summarize_values(transactions)
    /\ transactions' = <<>>
    /\ lastOp' = "summarize"
    /\ queried' = queried \cup {"summarize"}
    /\ repeated' = ("summarize" \in queried)
    /\ UNCHANGED <<session, initArgs, ctorError, address, threshold,
                   rawList, loadError, skipped, loadLog, loadReturn, anomalies>>
    /\ UNCHANGED <<scoreVars, sessionVars, extraVars>>

\* analyzer.summarize_values()
SummarizeValues ==
    /\ session = "live"
    /\ summary' = summarize_values(transactions)
    /\ lastOp' = "summarize"
    /\ queried' = queried \cup {"summarize"}
    /\ repeated' = ("summarize" \in queried)
    /\ UNCHANGED <<session, initArgs, ctorError, address, threshold, transactions,
                   rawList, loadError, skipped, loadLog, loadReturn, anomalies>>
    /\ UNCHANGED <<scoreVars, sessionVars, extraVars>>

\* the first ingestion of a fresh session
FirstLoad == \E raw \in RawLists : lastOp = "init" /\ LoadTransactions(raw)

\* a later ingestion into the same session
LaterLoad == \E raw \in ReloadLists : lastOp # "init" /\ LoadTransactions(raw)

Next ==
    \/ \E addr \in Addresses, thr \in Thresholds : Construct(addr, thr)
    \/ FirstLoad
    \/ LaterLoad
    \/ DetectAnomalies
    \/ SummarizeValues

Spec == Init /\ [][Next]_vars

(***************************************************************************)
(* Properties of the analysis session                                      *)
(***************************************************************************)
Range(f) == { f[i] : i \in DOMAIN f }

\* v > T and v <= T as real-number facts, for a finite T
StrictlyAbove(v, T) == (v.k = "fin" /\ v.n > T.n) \/ (v.k = "inf" /\ v.n > 0)
AtMost(v, T)        == (v.k = "fin" /\ v.n <= T.n) \/ (v.k = "inf" /\ v.n < 0)

RecC == RawDict(H("c"), PyMissing, PyNum(Fin(1)), TsZ)
RecD == RawDict(H("d"), PyMissing, PyNum(Fin(2)), TsNaive)
RecE == RawDict(H("e"), PyMissing, PyStr("bad", 0), TsZ)
RecF == RawDict(H("f"), PyMissing, PyMissing, TsZ)
RecG == RawDict(H("g"), PyMissing, PyNum(Fin(3)), TsBad)
RecH == RawDict(H("h"), PyMissing, PyNum(Fin(3)), TsZZ)

TxA == Transaction("a", Fin(3), UtcDatetime(1))

\* C1: for a non-negative threshold T, detect_anomalies returns exactly the
\* loaded transactions whose value is strictly greater than T: every returned
\* transaction is loaded and has value > T, every loaded transaction with
\* value > T is returned, and none with value <= T (value = T included) is.
C1_AnomaliesStrictlyAboveThreshold ==
    (lastOp = "detect" /\ threshold.k = "fin" /\ threshold.n >= 0) =>
        /\ \A i \in 1..Len(anomalies) :
              /\ anomalies[i] \in Range(transactions)
              /\ StrictlyAbove(anomalies[i].value, threshold)
        /\ \A j \in 1..Len(transactions) :
              /\ AtMost(transactions[j].value, threshold)
                    => transactions[j] \notin Range(anomalies)
              /\ StrictlyAbove(transactions[j].value, threshold)
                    => transactions[j] \in Range(anomalies)

\* threshold 2 (10000), values 1, 3, 2 (5000, 15000, 10000): only 3 is returned
C1_Witness ==
    /\ lastOp = "detect"
    /\ threshold = Fin(2)
    /\ rawList = <<RecC, RecA, RecD>>
    /\ Len(transactions) = 3
    /\ anomalies = <<TxA>>

\* records that are bad beyond dispute: not a map, or a timestamp that is
\* missing or is no date at all
Malformed(r) ==
    \/ ~r.isDict
    \/ r.timestamp.t \in {"missing", "none"}
    \/ r.timestamp.t = "str" /\ r.timestamp.s \notin IsoStrings

CountOf(raw, P(_)) == Cardinality({ i \in 1..Len(raw) : P(raw[i]) })

\* C5: load_transactions completes without raising whatever the records are,
\* the malformed records are left out, and no more Transactions are accepted
\* than there are raw records.
C5_IngestionNeverFails ==
    lastOp = "load" =>
        /\ loadError = ""
        /\ Len(transactions) <= Len(rawList)
        /\ Len(transactions) <= Len(rawList) - CountOf(rawList, Malformed)

\* a batch of three with two malformed records and one good one
C5_Witness ==
    /\ lastOp = "load"
    /\ rawList = <<NotADict, RecA, RecG>>
    /\ loadError = ""
    /\ transactions = <<TxA>>

\* a timestamp string that is ISO-8601: a date-time, optionally followed by
\* one "Z" when it carries no offset of its own
IsIso8601(ts) ==
    /\ ts.t = "str"
    /\ ts.s \in IsoStrings
    /\ \/ ts.zs = 0
       \/ ts.zs = 1 /\ ts.s = "2024-01-01T00:00:00"

\* the timestamp of the record is missing or is a string that is not ISO-8601
BadTimestamp(r) ==
    /\ r.isDict
    /\ \/ r.timestamp.t \in {"missing", "none"}
       \/ r.timestamp.t = "str" /\ ~IsIso8601(r.timestamp)

\* C6: a record whose timestamp is missing or is not ISO-8601 is excluded
\* whatever its other fields, the rest of the batch is still processed, and
\* ingesting [a (15000, valid timestamp), b ("bad", no timestamp)] yields
\* exactly the Transaction a with value 15000.0.
C6_BadTimestampExcluded ==
    lastOp = "load" =>
        /\ \A i \in 1..Len(rawList) :
              BadTimestamp(rawList[i]) =>
                 \A j \in 1..Len(transactions) :
                    transactions[j].tx_hash # rawList[i].hash.s
        /\ rawList = <<RecA, RecB>> => transactions = <<TxA>>

\* C7: a record with a valid timestamp whose value is missing or is not
\* numeric is accepted as a Transaction with value 0.0.
C7_BadValueDefaultsToZero ==
    lastOp = "load" =>
        \A i \in 1..Len(rawList) :
           LET r == rawList[i]
           IN  ( /\ r.isDict
                 /\ IsIso8601(r.timestamp)
                 /\ \/ r.value.t = "missing"
                    \/ r.value.t = "str" /\ r.value.s \notin NumericStrings )
               => \E j \in 1..Len(transactions) :
                     /\ transactions[j].tx_hash = r.hash.s
                     /\ transactions[j].value = Fin(0)

C10_EmptySummaryIsZero ==
    (lastOp = "summarize" /\ transactions = <<>>) =>
        /\ summary.exc = ""
        /\ summary.avg.sum = Fin(0) /\ summary.avg.count > 0
        /\ summary.max = Fin(0)
        /\ summary.min = Fin(0)

\* the summary of a session whose ingestion rejected every record
C10_Witness ==
    /\ lastOp = "summarize"
    /\ rawList = <<RecB, RecG>>
    /\ transactions = <<>>
    /\ summary = ZeroSummary

(***************************************************************************)
(* The scoring workflow: a score is computed from the risk inputs and      *)
(* classified, or a given score is classified on its own.                  *)
(***************************************************************************)
ScoreInit ==
    /\ WalletInit
    /\ SessionOff
    /\ ExtraOff
    /\ score = Fin(0)
    /\ tokenScore = Quot(0, 1)
    /\ scoreError = ""
    /\ classifier = ""
    /\ category = ""
    /\ \/ scorePc = "start" /\ scoreArgs \in ScoreArgs /\ classifyArg = Fin(0)
       \/ scorePc = "given" /\ scoreArgs = NoScoreArgs /\ classifyArg \in ClassifyInputs

\* score = calculate_risk_score(price_change, liquidity, flags, weights)
CalculateRiskScore ==
    /\ scorePc = "start"
    /\ LET r == calculate_risk_score(PyNum(scoreArgs.price_change),
                                     PyNum(scoreArgs.liquidity),
                                     scoreArgs.flags, scoreArgs.weights)
       IN  /\ scoreError' = r.exc
           /\ IF r.exc # ""
              THEN scorePc' = "raised" /\ UNCHANGED <<score, classifyArg>>
              ELSE /\ scorePc' = "scored"
                   /\ \E v \in r.values : score' = v /\ classifyArg' = v
    /\ UNCHANGED <<scoreArgs, tokenScore, classifier, category>>
    /\ UNCHANGED <<walletVars, sessionVars, extraVars>>

\* score = calculate_risk_score(price_change, liquidity, len(flags), weights),
\* cleo_alyssium_token_service.py
TokenCalculateRiskScore ==
    /\ scorePc = "start"
    /\ LET r == token_calculate_risk_score(PyNum(scoreArgs.price_change),
                                           PyNum(scoreArgs.liquidity),
                                           Len(scoreArgs.flags), scoreArgs.weights)
       IN  /\ scoreError' = r.exc
           /\ tokenScore' = r.value
    /\ scorePc' = "token_scored"
    /\ UNCHANGED <<scoreArgs, score, classifyArg, classifier, category>>
    /\ UNCHANGED <<walletVars, sessionVars, extraVars>>

\* the score of the workflow, or the score given on its own, is ready
ClassifyReady == scorePc \in {"scored", "given"}

\* category = classify_risk(score), cleo_alyssium_cron_scheduler.py
ClassifyRisk ==
    /\ ClassifyReady
    /\ category' = classify_risk(PyNum(classifyArg))
    /\ classifier' = "cron_scheduler.classify_risk"
    /\ scorePc' = "classified"
    /\ UNCHANGED <<scoreArgs, score, tokenScore, scoreError, classifyArg>>
    /\ UNCHANGED <<walletVars, sessionVars, extraVars>>

\* label = classify_risk(score), cleo_alyssium_veil_guard.py
VeilClassifyRisk ==
    /\ ClassifyReady
    /\ category' = veil_classify_risk(PyNum(classifyArg))
    /\ classifier' = "veil_guard.classify_risk"
    /\ scorePc' = "classified"
    /\ UNCHANGED <<scoreArgs, score, tokenScore, scoreError, classifyArg>>
    /\ UNCHANGED <<walletVars, sessionVars, extraVars>>

\* classification = classify_token(risk), cleo_alyssium_session_service.py
SessionClassifyToken ==
    /\ ClassifyReady
    /\ category' = session_classify_token(PyNum(classifyArg))
    /\ classifier' = "session_service.classify_token"
    /\ scorePc' = "classified"
    /\ UNCHANGED <<scoreArgs, score, tokenScore, scoreError, classifyArg>>
    /\ UNCHANGED <<walletVars, sessionVars, extraVars>>

\* category = classify_token(score), cleo_alyssium_telemetry.py
TelemetryClassifyToken ==
    /\ ClassifyReady
    /\ category' = telemetry_classify_token(PyNum(classifyArg))
    /\ classifier' = "telemetry.classify_token"
    /\ scorePc' = "classified"
    /\ UNCHANGED <<scoreArgs, score, tokenScore, scoreError, classifyArg>>
    /\ UNCHANGED <<walletVars, sessionVars, extraVars>>

ScoreNext ==
    \/ CalculateRiskScore
    \/ TokenCalculateRiskScore
    \/ ClassifyRisk
    \/ VeilClassifyRisk
    \/ SessionClassifyToken
    \/ TelemetryClassifyToken

ScoreSpec == ScoreInit /\ [][ScoreNext]_vars

(***************************************************************************)
(* Properties of the risk scorer                                           *)
(***************************************************************************)
FiniteArgs == IsFinite(scoreArgs.price_change) /\ IsFinite(scoreArgs.liquidity)

\* the weight of a key as the claim reads it: the supplied value, else the default
WeightOf(x, default) == IF x.t = "missing" THEN default ELSE x.v.n

W_price     == WeightOf(scoreArgs.weights.price, 400)
W_liquidity == WeightOf(scoreArgs.weights.liquidity, 400)
W_flags     == WeightOf(scoreArgs.weights.flags, 200)

Clamp(x, lo, hi) == IF x < lo THEN lo ELSE IF x > hi THEN hi ELSE x

AbsInt(x) == IF x < 0 THEN -x ELSE x

\* C2: for finite price_change and liquidity, any flag list and non-negative
\* weights (whatever their sum), the returned score lies in [0.0, 1.0].
C2_ScoreInUnitInterval ==
    ( /\ scorePc = "scored" /\ FiniteArgs
      /\ W_price >= 0 /\ W_liquidity >= 0 /\ W_flags >= 0 )
    => (score.k = "fin" /\ 0 <= score.n /\ score.n <= Unit)

\* price change +150%, liquidity -0.5, every flag suspicious, weights summing
\* to 3.4: the score is 1.0
C2_Witness ==
    /\ scorePc = "scored"
    /\ scoreArgs = [price_change |-> Fin(1500), liquidity |-> Fin(-500),
                    flags |-> <<"suspicious">>,
                    weights |-> WeightsDict(PyNum(Fin(1500)), PyNum(Fin(400)),
                                            PyNum(Fin(1500)))]
    /\ score = Fin(Unit)

\* the terms of the claimed formula, as integers over the common denominator
\* Unit * Unit * (number of flags, or 1 when there is none)
C3_Pct      == Clamp(AbsInt(scoreArgs.price_change.n), 0, Unit)
C3_Illiq    == Unit - Clamp(scoreArgs.liquidity.n, 0, Unit)
C3_FlagNum  == Cardinality({ i \in 1..Len(scoreArgs.flags) :
                               scoreArgs.flags[i] = "suspicious" })
C3_FlagDen  == IF scoreArgs.flags = <<>> THEN 1 ELSE Len(scoreArgs.flags)
C3_Den      == Unit * Unit * C3_FlagDen
C3_Raw      == (C3_Pct * W_price + C3_Illiq * W_liquidity) * C3_FlagDen
                  + C3_FlagNum * Unit * W_flags
C3_Clamped  == Clamp(C3_Raw, 0, C3_Den)

\* C3: for finite inputs the score is clamp(pct*w_price + illiquidity*
\* w_liquidity + flag_component*w_flags, 0, 1) rounded to 2 decimals, that is
\* a multiple of 0.01 within 0.005 of the clamped sum; and
\* score(0.05, 0.9, ["suspicious"], {0.4, 0.4, 0.2}) is 0.26.
C3_ScoreFormula ==
    (scorePc = "scored" /\ FiniteArgs) =>
        /\ score.k = "fin"
        /\ score.n % 10 = 0
        /\ 2 * AbsInt(C3_Clamped * 100 - (score.n \div 10) * C3_Den) <= C3_Den
        /\ scoreArgs = [price_change |-> Fin(50), liquidity |-> Fin(900),
                        flags |-> <<"suspicious">>,
                        weights |-> WeightsDict(PyNum(Fin(400)), PyNum(Fin(400)),
                                                PyNum(Fin(200)))]
              => score = Fin(260)

C3_Witness ==
    /\ scorePc = "scored"
    /\ scoreArgs = [price_change |-> Fin(50), liquidity |-> Fin(900),
                    flags |-> <<"suspicious">>,
                    weights |-> WeightsDict(PyNum(Fin(400)), PyNum(Fin(400)),
                                            PyNum(Fin(200)))]
    /\ score = Fin(260)

\* C4: every classification function with the strict comparisons returns
\* "High Risk" exactly when score > 0.8, "Moderate Risk" exactly when
\* 0.5 < score <= 0.8 and "Low Risk" exactly when score <= 0.5; so 0.5 is
\* "Low Risk" and 0.8 is "Moderate Risk".
C4_ClassifyBoundaries ==
    ( /\ scorePc = "classified" /\ IsFinite(classifyArg)
      /\ classifier # "telemetry.classify_token" ) =>
        /\ category = "High Risk" <=> classifyArg.n > 800
        /\ category = "Moderate Risk" <=> (500 < classifyArg.n /\ classifyArg.n <= 800)
        /\ category = "Low Risk" <=> classifyArg.n <= 500

\* classify_risk(0.5) of cleo_alyssium_cron_scheduler.py is "Low Risk"
C4_Witness ==
    /\ scorePc = "classified"
    /\ classifier = "cron_scheduler.classify_risk"
    /\ classifyArg = Fin(500)
    /\ category = "Low Risk"

\* C9: a call of calculate_risk_score with a NaN or infinite price_change or
\* liquidity fails with an InvalidInput error.
C9_NonFiniteInputRejected ==
    (scorePc = "scored" /\ ~FiniteArgs) => scoreError = "InvalidInput"


(***************************************************************************)
(* Further properties of the analysis session                              *)
(***************************************************************************)
RecT == RawDict(PyMissing, H("t"), PyStr("2", 0), TsOffset)
RecNeg == RawDict(PyMissing, PyMissing, PyNum(Fin(-1)), PyDatetime("naive", 1))
RecNaN == RawDict(H(""), H("t"), PyNum(NaN), TsZ)

\* a <= b on floats, as the real-number order (false when either is NaN)
Le(a, b) == a.k # "nan" /\ b.k # "nan" /\ ~Lt(b, a)

\* C11: for a non-empty loaded set, summarize_values returns avg = (sum of
\* all loaded values) / (their count), max = the greatest and min = the least
\* loaded value, over every loaded transaction whatever the threshold, so
\* that min <= avg <= max.
C11_SummaryOverAllLoaded ==
    (lastOp = "summarize" /\ transactions # <<>>) =>
        LET vals == ValuesOf(transactions)
        IN  /\ summary.exc = ""
            /\ summary.avg.count = Len(vals)
            /\ summary.avg.sum = PySum(Fin(0), vals)
            /\ summary.max \in Range(vals)
            /\ summary.min \in Range(vals)
            /\ \A i \in 1..Len(vals) :
                  Le(vals[i], summary.max) /\ Le(summary.min, vals[i])
            /\ IsFinite(summary.avg.sum)
            /\ summary.min.n * summary.avg.count <= summary.avg.sum.n
            /\ summary.avg.sum.n <= summary.max.n * summary.avg.count


TxC == Transaction("c", Fin(1), UtcDatetime(1))
TxH == Transaction("h", Fin(3), UtcDatetime(1))

\* an ingestion has returned in this session
Loaded == session = "live" /\ loadReturn # PyMissing

\* the records of the last ingestion that were accepted, in input order
AcceptedRecords == SelectSeq(rawList, LAMBDA r : from_dict(r).exc = "")

\* sub is seq with some elements removed
RECURSIVE IsSubsequence(_, _)
IsSubsequence(sub, seq) ==
    IF sub = <<>> THEN TRUE
    ELSE IF seq = <<>> THEN FALSE
    ELSE IF Head(sub) = Head(seq) THEN IsSubsequence(Tail(sub), Tail(seq))
    ELSE IsSubsequence(sub, Tail(seq))

\* C14: the held transactions are the input with the excluded records
\* removed: each accepted record appears once, in the relative order of the
\* input, never reordered or duplicated.
C14_IngestionKeepsOrder ==
    Loaded =>
        /\ Len(transactions) = Len(AcceptedRecords)
        /\ \A i \in 1..Len(transactions) :
              transactions[i] = from_dict(AcceptedRecords[i]).tx

C14_Witness ==
    /\ rawList = <<RecC, RecG, RecA>>
    /\ transactions = <<TxC, TxA>>
    /\ lastOp = "load"

\* C15: the list detect_anomalies returns is a subsequence of the loaded
\* list: the flagged transactions, in the order in which they were loaded.
C15_AnomaliesSubsequence ==
    (session = "live" /\ "detect" \in queried) =>
        IsSubsequence(anomalies, transactions)

C15_Witness ==
    /\ rawList = <<RecA, RecC, RecH>>
    /\ threshold = Fin(2)
    /\ lastOp = "detect"
    /\ anomalies = <<TxA, TxH>>

\* C16: after an ingestion that excluded k > 0 records, the caller or an
\* observer is given the number excluded as a count (raw records minus
\* accepted records): in the return value, or in a log record that is not
\* one of the per-record warnings.
C16_ExcludedCountReported ==
    (Loaded /\ lastOp = "load" /\ Len(rawList) > Len(transactions)) =>
        LET k == Len(rawList) - Len(transactions)
        IN  \/ loadReturn = PyNum(Fin(k))
            \/ \E i \in 1..Len(loadLog) :
                  /\ loadLog[i].level # "WARNING"
                  /\ loadLog[i].n = k

\* C17: every Transaction the session holds has a value >= 0.
C17_ValuesNonNegative ==
    session = "live" =>
        \A i \in 1..Len(transactions) : Le(Fin(0), transactions[i].value)


\* str(x) is x itself for a non-empty string
NonEmptyStr(x) == x.t = "str" /\ Truthy(x)

\* the id as the code derives it: the first of "hash", "tx_hash" that is
\* present and non-empty, else ""
FirstNonEmptyId(r) ==
    IF NonEmptyStr(r.hash) THEN r.hash.s
    ELSE IF NonEmptyStr(r.tx_hash) THEN r.tx_hash.s
    ELSE ""

\* the id as the claim reads: "hash" when the key is present, else "tx_hash"
\* when that key is present, else ""
FirstPresentId(r) ==
    IF r.hash.t # "missing" THEN r.hash.s
    ELSE IF r.tx_hash.t # "missing" THEN r.tx_hash.s
    ELSE ""

\* C18 (amended): the id of a held Transaction is the "hash" field of its
\* record when that field is present and non-empty, otherwise the "tx_hash"
\* field when present and non-empty, otherwise ""; it is always a string.
C18_IdFirstNonEmpty ==
    Loaded =>
        /\ Len(transactions) = Len(AcceptedRecords)
        /\ \A i \in 1..Len(transactions) :
              /\ transactions[i].tx_hash \in STRING
              /\ transactions[i].tx_hash = FirstNonEmptyId(AcceptedRecords[i])

\* C18 (as stated): the id is the "hash" field whenever that field is
\* present, otherwise "tx_hash", otherwise "".
C18_IdFirstPresent ==
    Loaded =>
        /\ Len(transactions) = Len(AcceptedRecords)
        /\ \A i \in 1..Len(transactions) :
              transactions[i].tx_hash = FirstPresentId(AcceptedRecords[i])

C18_Witness ==
    /\ rawList = <<RecNaN, RecNeg, RecA>>
    /\ Len(transactions) = 3
    /\ transactions[1].tx_hash = "t"
    /\ transactions[2].tx_hash = ""
    /\ transactions[3].tx_hash = "a"

\* C20: detect_anomalies and summarize_values are read-only: a call leaves
\* the address, the threshold and the loaded transactions unchanged, and a
\* repeated call returns what the first call after the last ingestion
\* returned.
C20_QueriesReadOnly ==
    [][ lastOp' \in {"detect", "summarize"} =>
            /\ address' = address
            /\ threshold' = threshold
            /\ transactions' = transactions
            /\ (lastOp' = "detect" /\ "detect" \in queried) => anomalies' = anomalies
            /\ (lastOp' = "summarize" /\ "summarize" \in queried) => summary' = summary
      ]_vars

C20_Witness ==
    /\ transactions = <<TxC, TxA>>
    /\ threshold = Fin(2)
    /\ queried = {"detect", "summarize"}
    /\ repeated
    /\ lastOp = "detect"
    /\ anomalies = <<TxA>>
    /\ summary = Summary(Fin(4), 2, Fin(3), Fin(1))


\* C28: in every state of a session the anomaly set and the summary agree:
\* detect_anomalies returns a non-empty list exactly when the max of the
\* summary is strictly above the threshold, every anomaly has a value
\* between the min and the max of the summary, and the values the two calls
\* return after the same load are these.
C28_AnomaliesAgreeWithSummary ==
    session = "live" =>
        LET a == detect_anomalies(transactions, threshold)
            s == summarize_values(transactions)
        IN  /\ (a # <<>>) <=> Gt(s.max, threshold)
            /\ \A i \in 1..Len(a) :
                  Le(s.min, a[i].value) /\ Le(a[i].value, s.max)
            /\ "detect" \in queried => anomalies = a
            /\ "summarize" \in queried => summary = s

\* both were asked after a load that holds a NaN value, a flagged and an
\* unflagged transaction
C28_Witness ==
    /\ { "detect", "summarize" } \subseteq queried
    /\ anomalies # <<>>
    /\ Len(anomalies) + 1 < Len(transactions)
    /\ \E i \in 1..Len(transactions) : transactions[i].value = NaN
    /\ Gt(summary.max, threshold)

(***************************************************************************)
(* cleo_alyssium_session_service.py: its own Transaction and               *)
(* WalletAnalyzer, and a caller that assigns to a field of a Transaction   *)
(* the session holds.                                                      *)
(***************************************************************************)
\* the datetime datetime.fromisoformat returns: aware only with an offset
SessionDatetime(i, aware) == [inst |-> i, tz |-> IF aware THEN "UTC" ELSE ""]

IsoAware(s) == s = "2024-01-02T00:00:00+00:00"

\* Transaction.from_dict of the session service: data.get("hash", ""),
\* float(data.get("value", 0)), datetime.fromisoformat(data.get("timestamp"))
session_from_dict(data) ==
    IF ~data.isDict
    THEN [exc |-> "AttributeError", tx |-> NoTransaction]
    ELSE LET h   == IF data.hash.t = "missing" THEN "" ELSE data.hash.s
             val == PyFloat(IF data.value.t = "missing" THEN PyNum(Fin(0))
                            ELSE data.value)
             tsv == Get(data.timestamp)
             ts  == IF tsv.t # "str" THEN [exc |-> "TypeError", inst |-> 0]
                    ELSE FromIsoFormat(tsv)
         IN  IF val.exc # "" THEN [exc |-> val.exc, tx |-> NoTransaction]
             ELSE IF ts.exc # "" THEN [exc |-> ts.exc, tx |-> NoTransaction]
             ELSE [exc |-> "",
                   tx |-> Transaction(h, val.v, SessionDatetime(ts.inst, IsoAware(tsv.s)))]

\* [Transaction.from_dict(tx) for tx in tx_list]: the first exception escapes
RECURSIVE session_load_transactions(_, _)
session_load_transactions(tx_list, txs) ==
    IF tx_list = <<>> THEN [exc |-> "", txs |-> txs]
    ELSE LET r == session_from_dict(Head(tx_list))
         IN  IF r.exc # "" THEN [exc |-> r.exc, txs |-> <<>>]
             ELSE session_load_transactions(Tail(tx_list), Append(txs, r.tx))

\* [tx for tx in self.transactions if tx.value > self.threshold]; the result
\* holds the same objects, given here by their positions in self.transactions
session_detect_anomalies(txs, thr) ==
    SelectSeq([i \in 1..Len(txs) |-> i], LAMBDA i : Gt(txs[i].value, thr))

\* the class is declared with a plain @dataclass
SessionTransactionFrozen == FALSE

\* tx.field = val on a dataclass instance
dataclass_setattr(frozen, tx, field, val) ==
    IF frozen THEN [exc |-> "FrozenInstanceError", tx |-> tx]
    ELSE [exc |-> "", tx |-> [tx EXCEPT ![field] = val]]

SsRecX == RawDict(H("x"), PyMissing, PyNum(Fin(3)), TsNaive)

\* timestamps carry no "Z" suffix here: whether fromisoformat accepts one
\* depends on the Python version
SsRecords ==
    { SsRecX,
      RawDict(H("d"), PyMissing, PyNum(Fin(2)), TsNaive),
      RawDict(PyMissing, H("t"), PyStr("2", 0), TsOffset),
      RecB,
      RawDict(H("g"), PyMissing, PyNum(Fin(3)), TsBad) }

SsLists == UNION { [1..n -> SsRecords] : n \in 0..MaxSsRaw }

\* 10_000.0 is the default threshold; any float is accepted
SsThresholds == { Fin(2), Fin(-1) }

\* field assignments a caller attempts
Assignments ==
    { [field |-> "value", val |-> Fin(0)],
      [field |-> "tx_hash", val |-> "forged"],
      [field |-> "timestamp", val |-> SessionDatetime(2, TRUE)] }

SessionInit ==
    /\ WalletInit
    /\ ScoreOff
    /\ ExtraOff
    /\ ssSession = "none"
    /\ ssThreshold = Fin(0)
    /\ ssTransactions = <<>>
    /\ ssError = ""
    /\ ssLastOp = "none"
    /\ ssAnomalies = <<>>

\* analyzer = WalletAnalyzer(thr)
SsConstruct(thr) ==
    /\ ssSession = "none"
    /\ ssSession' = "live"
    /\ ssThreshold' = thr
    /\ ssTransactions' = <<>>
    /\ ssError' = ""
    /\ ssLastOp' = "init"
    /\ UNCHANGED ssAnomalies
    /\ UNCHANGED <<walletVars, scoreVars, extraVars>>

\* analyzer.load_transactions(raw); results returned earlier are dropped
SsLoadTransactions(raw) ==
    /\ ssSession = "live"
    /\ LET r == session_load_transactions(raw, <<>>)
       IN  /\ ssError' = r.exc
           /\ ssTransactions' = IF r.exc = "" THEN r.txs ELSE ssTransactions
    /\ ssLastOp' = "load"
    /\ ssAnomalies' = <<>>
    /\ UNCHANGED <<ssSession, ssThreshold>>
    /\ UNCHANGED <<walletVars, scoreVars, extraVars>>

\* analyzer.detect_anomalies()
SsDetectAnomalies ==
    /\ ssSession = "live"
    /\ ssAnomalies' = session_detect_anomalies(ssTransactions, ssThreshold)
    /\ ssError' = ""
    /\ ssLastOp' = "detect"
    /\ UNCHANGED <<ssSession, ssThreshold, ssTransactions>>
    /\ UNCHANGED <<walletVars, scoreVars, extraVars>>

\* analyzer.transactions[i - 1].field = val, by a caller holding the object
SsSetAttr(i, a) ==
    /\ ssSession = "live"
    /\ i \in 1..Len(ssTransactions)
    /\ LET r == dataclass_setattr(SessionTransactionFrozen, ssTransactions[i],
                                  a.field, a.val)
       IN  /\ ssError' = r.exc
           /\ ssTransactions' = [ssTransactions EXCEPT ![i] = r.tx]
    /\ ssLastOp' = "setattr"
    /\ UNCHANGED <<ssSession, ssThreshold, ssAnomalies>>
    /\ UNCHANGED <<walletVars, scoreVars, extraVars>>

SessionNext ==
    \/ \E thr \in SsThresholds : SsConstruct(thr)
    \/ \E raw \in SsLists : SsLoadTransactions(raw)
    \/ SsDetectAnomalies
    \/ \E i \in 1..MaxSsRaw, a \in Assignments : SsSetAttr(i, a)

SessionSpec == SessionInit /\ [][SessionNext]_vars

\* C19: once a Transaction is constructed its id, value and timestamp never
\* change: detect_anomalies leaves every held Transaction as it is, and a
\* field assignment attempted by a caller is rejected with an error.
C19_TransactionImmutable ==
    [][ ssLastOp' \in {"detect", "setattr"} =>
            /\ ssTransactions' = ssTransactions
            /\ ssLastOp' = "setattr" => ssError' # ""
      ]_vars

(***************************************************************************)
(* Further properties of the risk scorers                                  *)
(***************************************************************************)
\* the inputs of C12: no weights, a finite price change x, liquidity 1.0, no flags
C12_Case ==
    /\ scoreArgs.weights = NoWeights
    /\ IsFinite(scoreArgs.price_change)
    /\ scoreArgs.liquidity = Fin(Unit)
    /\ scoreArgs.flags = <<>>

\* clamp(|x|, 0, 1) * 0.4 rounded to 2 decimals, in thousandths
C12_Expected ==
    Round2(Quot(Clamp(AbsInt(scoreArgs.price_change.n), 0, Unit) * 400, Unit * Unit))

\* C12: with no weights supplied the score uses price=0.4, liquidity=0.4,
\* flags=0.2, so score(x, 1.0, []) is clamp(|x|, 0, 1) * 0.4 rounded to 2
\* decimals; stated for calculate_risk_score of the cron scheduler and of
\* the token service.
C12_DefaultWeights ==
    /\ (scorePc = "scored" /\ C12_Case) => score \in C12_Expected
    /\ (scorePc = "token_scored" /\ C12_Case) =>
          /\ scoreError = ""
          /\ \E v \in C12_Expected :
                tokenScore.num * Unit = v.n * tokenScore.den

\* -x on floats
Neg(x) == IF x.k = "nan" THEN NaN ELSE [x EXCEPT !.n = -x.n]

\* the scores calculate_risk_score can return for price change p and
\* liquidity l, with the flags and weights of the call
C13_Scores(p, l) ==
    calculate_risk_score(PyNum(p), PyNum(l), scoreArgs.flags, scoreArgs.weights).values

\* C13: the scorer saturates out-of-range inputs: score(p) = score(-p);
\* |p| >= 1 scores as p = 1.0; liquidity <= 0 scores as liquidity 0 and
\* liquidity >= 1 as liquidity 1, the other arguments fixed.
C13_Saturation ==
    scorePc = "scored" =>
        LET p == scoreArgs.price_change
            l == scoreArgs.liquidity
        IN  /\ score \in C13_Scores(p, l)
            /\ C13_Scores(Neg(p), l) = C13_Scores(p, l)
            /\ Le(Fin(Unit), Abs(p)) => C13_Scores(p, l) = C13_Scores(Fin(Unit), l)
            /\ Le(l, Fin(0)) => C13_Scores(p, l) = C13_Scores(p, Fin(0))
            /\ Le(Fin(Unit), l) => C13_Scores(p, l) = C13_Scores(p, Fin(Unit))

C13_Witness ==
    /\ scorePc = "scored"
    /\ scoreArgs.price_change = Fin(-1500)
    /\ scoreArgs.liquidity = Fin(2000)
    /\ scoreArgs.flags = <<>>
    /\ scoreArgs.weights = NoWeights
    /\ score = Fin(400)


\* C21: calling calculate_risk_score with a malformed weights map (a weight
\* value that is not a number) fails with an InvalidConfiguration error at
\* the call, not with another kind of failure and not with a returned score.
C21_MalformedWeightsInvalidConfiguration ==
    (scorePc \in {"scored", "raised"} /\ NonNumericWeight(scoreArgs.weights)) =>
        /\ scorePc = "raised"
        /\ scoreError = "InvalidConfiguration"


\* the two scores at which the classification variants are claimed to differ
C22_Boundary == classifyArg \in {Fin(500), Fin(800)}

\* C22: for every score other than exactly 0.5 and exactly 0.8, classify_token
\* of the telemetry module (>=) returns the category classify_risk of the cron
\* scheduler (>) returns; at 0.5 and at 0.8 the two categories differ.
C22_VariantsDifferAtBoundaries ==
    /\ (scorePc = "classified" /\ classifier = "telemetry.classify_token") =>
          (category # classify_risk(PyNum(classifyArg)) <=> C22_Boundary)
    /\ (scorePc = "classified" /\ classifier = "cron_scheduler.classify_risk") =>
          (category # telemetry_classify_token(PyNum(classifyArg)) <=> C22_Boundary)

C22_Witness ==
    /\ scorePc = "classified"
    /\ classifier = "telemetry.classify_token"
    /\ classifyArg = Fin(500)
    /\ category = "Moderate Risk"


\* the workflow classified the score it computed with classify_risk
C26_Workflow ==
    /\ scorePc = "classified"
    /\ classifier = "cron_scheduler.classify_risk"
    /\ scoreError = ""
    /\ classifyArg = score
    /\ FiniteArgs

\* the unrounded clamped sum lies strictly between lo and lo + 0.005, lo in
\* hundredths
C26_JustAbove(lo) ==
    /\ C3_Clamped * 100 > lo * C3_Den
    /\ C3_Clamped * 200 < (2 * lo + 1) * C3_Den

\* C26: the category is decided by the score after rounding to 2 decimals:
\* an unrounded sum strictly between 0.50 and 0.505 yields score 0.5 and
\* "Low Risk", one strictly between 0.80 and 0.805 yields score 0.8 and
\* "Moderate Risk".
C26_CategoryOfRoundedScore ==
    C26_Workflow =>
        /\ C26_JustAbove(50) => (score = Fin(500) /\ category = "Low Risk")
        /\ C26_JustAbove(80) => (score = Fin(800) /\ category = "Moderate Risk")

\* 0.505 * 0.4 + 1.0 * 0.4 + 1.0 * 0.2 = 0.802
C26_Witness ==
    /\ C26_Workflow
    /\ scoreArgs = [price_change |-> Fin(505), liquidity |-> Fin(0),
                    flags |-> <<"suspicious">>, weights |-> NoWeights]
    /\ score = Fin(800)
    /\ category = "Moderate Risk"


(***************************************************************************)
(* A process that scores and classifies the same inputs twice, with the    *)
(* functions of cleo_alyssium_cron_scheduler.py or of                      *)
(* cleo_alyssium_veil_guard.py, and makes other calls before or between.   *)
(***************************************************************************)
\* calculate_risk_score of cleo_alyssium_veil_guard.py: weights is the dict
\* supplied, or the default dict object when none is supplied; the dict is
\* read with weights[key] and never written
veil_calculate_risk_score(price_change, liquidity, flags, weights, defaults) ==
    LET e1  == IF weights.none THEN "" ELSE TokenWeightError(weights.price)
        e2  == IF weights.none THEN "" ELSE TokenWeightError(weights.liquidity)
        e3  == IF weights.none THEN "" ELSE TokenWeightError(weights.flags)
        exc == IF e1 # "" THEN e1 ELSE IF e2 # "" THEN e2 ELSE e3
        w   == IF weights.none THEN defaults
               ELSE [price |-> weights.price.v, liquidity |-> weights.liquidity.v,
                     flags |-> weights.flags.v]
        raw == RawScore(token_pct_change(price_change), token_illiquidity(liquidity),
                        FlagScore(flags), w)
    IN  IF exc # "" THEN [exc |-> exc, values |-> {}]
        ELSE [exc |-> "", values |-> Round2(ClampScore(raw))]

\* round() of one binary float: of the two neighbours of an exact decimal
\* tie, the one on the side where the binary value lies
IeeeRound(values, tie) ==
    CHOOSE v \in values :
        \A u \in values : IF tie = "below" THEN v.n <= u.n ELSE v.n >= u.n

\* the call of the process's scorer with arguments a
RpScore(a) ==
    IF scorer = "veil_guard"
    THEN veil_calculate_risk_score(PyNum(a.price_change), PyNum(a.liquidity),
                                   a.flags, a.weights, veilDefaults)
    ELSE calculate_risk_score(PyNum(a.price_change), PyNum(a.liquidity),
                              a.flags, a.weights)

\* the call of the process's classifier
RpClassify(s) ==
    IF scorer = "veil_guard" THEN veil_classify_risk(PyNum(s))
    ELSE classify_risk(PyNum(s))

RepeatArgs ==
    [price_change : { Fin(50), Fin(-1500), NaN },
     liquidity : { Fin(1000), Fin(500) },
     flags : { <<>>, <<"suspicious", "honeypot">> },
     weights : { NoWeights,
                 WeightsDict(PyNum(Fin(1500)), PyNum(Fin(400)), PyNum(Fin(200))),
                 WeightsDict(PyNum(Fin(0)), PyMissing, PyMissing) }]

RepeatInit ==
    /\ WalletInit
    /\ ScoreOff
    /\ SessionOff
    /\ FetchOff
    /\ VeilOff
    /\ SignalOff
    /\ rpPc = "start"
    /\ scorer \in { "cron_scheduler", "veil_guard" }
    /\ veilDefaults = VeilDefaultWeights
    /\ ieeeTie \in { "below", "above" }
    /\ rpArgs \in RepeatArgs
    /\ rpError = ""
    /\ score1 = Fin(0)
    /\ category1 = ""
    /\ score2 = Fin(0)
    /\ category2 = ""
    /\ earlierCalls = 0

\* an earlier call overwriting the default dict with the weights it was given
RpEarlierCall_updating(a) ==
    /\ rpPc \in { "start", "classified1" }
    /\ earlierCalls < MaxEarlier
    /\ a # rpArgs
    /\ earlierCalls' = earlierCalls + 1
    /\ veilDefaults' = IF RpScore(a).exc = "" /\ ~a.weights.none
                       THEN [price |-> a.weights.price.v,
                             liquidity |-> a.weights.liquidity.v,
                             flags |-> a.weights.flags.v]
                       ELSE veilDefaults
    /\ UNCHANGED <<rpPc, scorer, ieeeTie, rpArgs, rpError, score1, category1,
                   score2, category2>>
    /\ UNCHANGED <<walletVars, scoreVars, sessionVars, fetchVars, veilVars,
                   signalVars>>

\* calculate_risk_score(...) with other arguments, its result discarded: the
\* call stores nothing
RpEarlierCall(a) ==
    /\ rpPc \in { "start", "classified1" }
    /\ earlierCalls < MaxEarlier
    /\ a # rpArgs
    /\ earlierCalls' = earlierCalls + 1
    /\ UNCHANGED <<rpPc, scorer, veilDefaults, ieeeTie, rpArgs, rpError, score1,
                   category1, score2, category2>>
    /\ UNCHANGED <<walletVars, scoreVars, sessionVars, fetchVars, veilVars,
                   signalVars>>

\* score = calculate_risk_score(price_change, liquidity, flags, weights)
RpFirstScore ==
    /\ rpPc = "start"
    /\ LET r == RpScore(rpArgs)
       IN  /\ rpError' = r.exc
           /\ IF r.exc # ""
              THEN rpPc' = "raised" /\ UNCHANGED score1
              ELSE rpPc' = "scored1" /\ score1' = IeeeRound(r.values, ieeeTie)
    /\ UNCHANGED <<scorer, veilDefaults, ieeeTie, rpArgs, category1, score2,
                   category2, earlierCalls>>
    /\ UNCHANGED <<walletVars, scoreVars, sessionVars, fetchVars, veilVars,
                   signalVars>>

\* category = classify_risk(score)
RpFirstClassify ==
    /\ rpPc = "scored1"
    /\ category1' = RpClassify(score1)
    /\ rpPc' = "classified1"
    /\ UNCHANGED <<scorer, veilDefaults, ieeeTie, rpArgs, rpError, score1, score2,
                   category2, earlierCalls>>
    /\ UNCHANGED <<walletVars, scoreVars, sessionVars, fetchVars, veilVars,
                   signalVars>>

\* the same call of calculate_risk_score again
RpSecondScore ==
    /\ rpPc = "classified1"
    /\ LET r == RpScore(rpArgs)
       IN  /\ rpError' = r.exc
           /\ IF r.exc # ""
              THEN rpPc' = "raised" /\ UNCHANGED score2
              ELSE rpPc' = "scored2" /\ score2' = IeeeRound(r.values, ieeeTie)
    /\ UNCHANGED <<scorer, veilDefaults, ieeeTie, rpArgs, score1, category1,
                   category2, earlierCalls>>
    /\ UNCHANGED <<walletVars, scoreVars, sessionVars, fetchVars, veilVars,
                   signalVars>>

\* classify_risk of the second score
RpSecondClassify ==
    /\ rpPc = "scored2"
    /\ category2' = RpClassify(score2)
    /\ rpPc' = "classified2"
    /\ UNCHANGED <<scorer, veilDefaults, ieeeTie, rpArgs, rpError, score1,
                   category1, score2, earlierCalls>>
    /\ UNCHANGED <<walletVars, scoreVars, sessionVars, fetchVars, veilVars,
                   signalVars>>

RepeatNext ==
    \/ \E a \in RepeatArgs : RpEarlierCall(a)
    \/ RpFirstScore
    \/ RpFirstClassify
    \/ RpSecondScore
    \/ RpSecondClassify

RepeatSpec == RepeatInit /\ [][RepeatNext]_vars

\* C23: two calls of calculate_risk_score with identical arguments return
\* identical scores, and classify_risk of them identical categories,
\* whatever other calls the process made before or between them; a call
\* that returned the first time does not raise the second time.
C23_Deterministic ==
    /\ rpPc \in { "scored2", "classified2" } => score2 = score1
    /\ rpPc = "classified2" => category2 = category1
    /\ rpPc = "raised" => category1 = ""

\* the default weights were used twice, with a call in between
C23_Witness ==
    /\ rpPc = "classified2"
    /\ scorer = "veil_guard"
    /\ rpArgs.weights = NoWeights
    /\ earlierCalls = 1
    /\ rpArgs.price_change = Fin(-1500)
    /\ rpArgs.liquidity = Fin(500)
    /\ rpArgs.flags = <<>>
    /\ score2 = Fin(600)
    /\ category2 = "Moderate Risk"


(***************************************************************************)
(* fetch_json of cleo_alyssium_cron_scheduler.py: a GET with retries       *)
(***************************************************************************)

\* what one sess.get(...) can come back with: an exception of requests, or a
\* response with a status code and a body that is JSON or is not
GetOutcomes ==
    [kind : { "ConnectionError", "Timeout" }, status : { 0 }, body : { "" }]
    \cup [kind : { "response" }, status : { 200 }, body : { "bodyA", "bodyB", "notjson" }]
    \cup [kind : { "response" }, status : { 404, 429, 500, 599 }, body : { "notjson" }]

RetriesArgs == -1 .. MaxRetries
BackoffArgs == { 100, 500 }

_is_retryable_status(status) == status = 429 \/ (500 <= status /\ status <= 599)

\* Response.raise_for_status(): HTTPError for a 4xx or 5xx status
raise_for_status(status) == IF 400 <= status /\ status < 600 THEN "HTTPError" ELSE ""

\* a failed attempt is never followed by another one
MayRetry_never(att, r) == FALSE

\* `attempt <= retries`: the attempt is not the last one
MayRetry(att, r) == att <= r

\* the exception a GET and the handling of its response raise inside the try
\* block, "" if none; "ValueError" is not a RequestException
AttemptException(o) ==
    IF o.kind # "response" THEN o.kind
    ELSE IF raise_for_status(o.status) # "" THEN raise_for_status(o.status)
    ELSE IF o.body = "notjson" THEN jsonErrorClass
    ELSE ""

FetchInit ==
    /\ WalletInit
    /\ ScoreOff
    /\ SessionOff
    /\ RepeatOff
    /\ VeilOff
    /\ SignalOff
    /\ fetchPc = "idle"
    /\ retries = 0
    /\ backoff_ms = 0
    /\ attempt = 0
    /\ last_error = ""
    /\ attempts = <<>>
    /\ sleeps = <<>>
    /\ fetchResult = ""
    /\ fetchError = ""
    /\ jsonErrorClass \in { "JSONDecodeError(RequestException)", "ValueError" }

\* fetch_json(url, retries=r, backoff_ms=b): up to the head of the for loop
FetchCall(r, b) ==
    /\ fetchPc = "idle"
    /\ retries' = r
    /\ backoff_ms' = b
    /\ attempt' = 1
    /\ fetchPc' = "loop"
    /\ UNCHANGED <<last_error, attempts, sleeps, fetchResult, fetchError,
                   jsonErrorClass>>
    /\ UNCHANGED <<walletVars, scoreVars, sessionVars, repeatVars, veilVars,
                   signalVars>>

\* one pass of `for attempt in range(1, retries + 2)`: the GET, what the body
\* of the loop does with its outcome, and after a break the return of None
FetchAttempt(o) ==
    /\ fetchPc = "loop"
    /\ attempt < retries + 2
    /\ attempts' = Append(attempts, [n |-> attempt, outcome |-> o])
    /\ LET exc == AttemptException(o)
           sleepAndContinue ==
               /\ sleeps' = Append(sleeps, backoff_ms * attempt)
               /\ attempt' = attempt + 1
               /\ fetchPc' = "loop"
               /\ UNCHANGED <<fetchResult, fetchError>>
       IN  IF o.kind = "response" /\ _is_retryable_status(o.status)
              /\ MayRetry(attempt, retries)
           THEN sleepAndContinue /\ UNCHANGED last_error
           ELSE IF exc = ""
           THEN /\ fetchResult' = o.body
                /\ fetchPc' = "returned"
                /\ UNCHANGED <<attempt, last_error, sleeps, fetchError>>
           ELSE IF exc = "ValueError"
           THEN /\ fetchError' = exc
                /\ fetchPc' = "raised"
                /\ UNCHANGED <<attempt, last_error, sleeps, fetchResult>>
           ELSE /\ last_error' = exc
                /\ IF MayRetry(attempt, retries)
                   THEN sleepAndContinue
                   ELSE /\ fetchResult' = "None"
                        /\ fetchPc' = "returned"
                        /\ UNCHANGED <<attempt, sleeps, fetchError>>
    /\ UNCHANGED <<retries, backoff_ms, jsonErrorClass>>
    /\ UNCHANGED <<walletVars, scoreVars, sessionVars, repeatVars, veilVars,
                   signalVars>>

\* the range is exhausted: the code after the loop returns None
FetchExhausted ==
    /\ fetchPc = "loop"
    /\ ~(attempt < retries + 2)
    /\ fetchResult' = "None"
    /\ fetchPc' = "returned"
    /\ UNCHANGED <<retries, backoff_ms, attempt, last_error, attempts, sleeps,
                   fetchError, jsonErrorClass>>
    /\ UNCHANGED <<walletVars, scoreVars, sessionVars, repeatVars, veilVars,
                   signalVars>>

FetchNext ==
    \/ \E r \in RetriesArgs, b \in BackoffArgs : FetchCall(r, b)
    \/ \E o \in GetOutcomes : FetchAttempt(o)
    \/ FetchExhausted

FetchSpec == FetchInit /\ [][FetchNext]_vars

\* every GET ends within its timeout and every sleep is finite, so a call
\* that can take a step takes it
FetchLiveSpec == FetchSpec /\ WF_vars(FetchNext)

\* the attempt got a response with a body that parsed
Succeeded(a) ==
    /\ a.outcome.kind = "response"
    /\ raise_for_status(a.outcome.status) = ""
    /\ a.outcome.body # "notjson"

FetchStarted == fetchPc \notin { "off", "idle" }

\* C24: fetch_json with retries = R makes at most R+1 GET attempts, numbered
\* 1..R+1 in order; it returns the parsed body of the first successful
\* attempt and makes no attempt after it; it returns None only after all R+1
\* attempts have failed; and every call ends.
C24_BoundedAttempts ==
    /\ [](FetchStarted =>
            /\ Len(attempts) <= retries + 1
            /\ \A i \in 1 .. Len(attempts) :
                  /\ attempts[i].n = i
                  /\ Succeeded(attempts[i]) =>
                        /\ i = Len(attempts)
                        /\ fetchPc = "returned"
                        /\ fetchResult = attempts[i].outcome.body
            /\ fetchResult \notin { "", "None" } =>
                  /\ Len(attempts) > 0
                  /\ Succeeded(attempts[Len(attempts)])
            /\ fetchResult = "None" =>
                  /\ Len(attempts) = retries + 1
                  /\ \A i \in 1 .. Len(attempts) : ~Succeeded(attempts[i]))
    /\ <>(fetchPc \in { "returned", "raised" })

\* the second of three allowed attempts succeeded and was the last
C24_Witness ==
    /\ fetchPc = "returned"
    /\ retries = 2
    /\ Len(attempts) = 2
    /\ attempts[1].outcome.kind = "Timeout"
    /\ fetchResult = "bodyB"

\* the failure of the attempt is one the documentation calls retryable
RetryableFailure(a) ==
    \/ a.outcome.kind \in { "ConnectionError", "Timeout" }
    \/ a.outcome.kind = "response" /\ _is_retryable_status(a.outcome.status)

\* a response with an error status that is not retryable
OtherErrorStatus(a) ==
    /\ a.outcome.kind = "response"
    /\ raise_for_status(a.outcome.status) # ""
    /\ ~_is_retryable_status(a.outcome.status)

\* C25: fetch_json makes another attempt after a failed one only when the
\* failure is retryable (network error, timeout, status 429 or 500..599); a
\* response with another error status, such as 404, ends the fetch with None
\* without a further attempt and without a backoff sleep.
C25_OnlyRetryableRetried ==
    FetchStarted =>
        \A i \in 1 .. Len(attempts) :
            /\ i < Len(attempts) => RetryableFailure(attempts[i])
            /\ OtherErrorStatus(attempts[i]) =>
                  /\ i = Len(attempts)
                  /\ Len(sleeps) < i
                  /\ fetchPc = "returned"
                  /\ fetchResult = "None"


(***************************************************************************)
(* WalletAnalyzer of cleo_alyssium_veil_guard.py: load                     *)
(***************************************************************************)

\* Transaction.from_dict of veil_guard: data.get("hash", ""),
\* float(data.get("value", 0)), datetime.fromisoformat(data.get("timestamp"))
veil_from_dict(data) ==
    IF ~data.isDict
    THEN [exc |-> "AttributeError", tx |-> NoTransaction]
    ELSE LET h   == IF data.hash.t = "missing" THEN "" ELSE data.hash.s
             val == PyFloat(IF data.value.t = "missing" THEN PyNum(Fin(0))
                            ELSE data.value)
             tsv == Get(data.timestamp)
             ts  == IF tsv.t # "str" THEN [exc |-> "TypeError", inst |-> 0]
                    ELSE FromIsoFormat(tsv)
         IN  IF val.exc # "" THEN [exc |-> val.exc, tx |-> NoTransaction]
             ELSE IF ts.exc # "" THEN [exc |-> ts.exc, tx |-> NoTransaction]
             ELSE [exc |-> "",
                   tx |-> Transaction(h, val.v, SessionDatetime(ts.inst, IsoAware(tsv.s)))]

\* [Transaction.from_dict(d) for d in raw_txs]: the first exception escapes
\* and no list is built
RECURSIVE veil_comprehension(_, _)
veil_comprehension(raw_txs, txs) ==
    IF raw_txs = <<>> THEN [exc |-> "", txs |-> txs]
    ELSE LET r == veil_from_dict(Head(raw_txs))
         IN  IF r.exc # "" THEN [exc |-> r.exc, txs |-> <<>>]
             ELSE veil_comprehension(Tail(raw_txs), Append(txs, r.tx))

\* self.transactions after load(raw_txs), given self.transactions before it:
\* the assignment happens only when the comprehension raised nothing
veil_load(before, raw_txs) ==
    LET r == veil_comprehension(raw_txs, <<>>)
    IN  [exc |-> r.exc, transactions |-> IF r.exc = "" THEN r.txs ELSE before]

\* timestamps carry no "Z" suffix here: whether fromisoformat accepts one
\* depends on the Python version
VgRecords ==
    { SsRecX,
      RawDict(H("d"), PyMissing, PyNum(Fin(2)), TsNaive),
      RecB,
      RawDict(H("g"), PyMissing, PyNum(Fin(3)), TsBad) }

VgLists == UNION { [1..n -> VgRecords] : n \in 0..MaxVgRaw }

VeilInit ==
    /\ WalletInit
    /\ ScoreOff
    /\ SessionOff
    /\ RepeatOff
    /\ FetchOff
    /\ SignalOff
    /\ vgSession = "none"
    /\ vgTransactions = <<>>
    /\ vgRawList = <<>>
    /\ vgError = ""
    /\ vgLoads = 0

\* analyzer = WalletAnalyzer(address, anomaly_threshold)
VgConstruct ==
    /\ vgSession = "none"
    /\ vgSession' = "live"
    /\ vgTransactions' = <<>>
    /\ UNCHANGED <<vgRawList, vgError, vgLoads>>
    /\ UNCHANGED <<walletVars, scoreVars, sessionVars, repeatVars, fetchVars,
                   signalVars>>

\* analyzer.load(raw)
VgLoad(raw) ==
    /\ vgSession = "live"
    /\ vgLoads < MaxVgLoads
    /\ LET r == veil_load(vgTransactions, raw)
       IN  /\ vgError' = r.exc
           /\ vgTransactions' = r.transactions
    /\ vgRawList' = raw
    /\ vgLoads' = vgLoads + 1
    /\ UNCHANGED vgSession
    /\ UNCHANGED <<walletVars, scoreVars, sessionVars, repeatVars, fetchVars,
                   signalVars>>

VeilNext ==
    \/ VgConstruct
    \/ \E raw \in VgLists : VgLoad(raw)

VeilSpec == VeilInit /\ [][VeilNext]_vars

\* the list a new analyzer holds after load(raw) as its only call
LoadAlone(raw) == veil_load(<<>>, raw).transactions

\* C27: load replaces the transaction list: after any sequence of load
\* calls the session holds what the last call alone would have left, and
\* nothing when the last call accepted no record.
C27_LoadReplaces ==
    vgLoads > 0 =>
        /\ vgTransactions = LoadAlone(vgRawList)
        /\ vgError # "" => vgTransactions = <<>>


(***************************************************************************)
(* SignalProcessor of logic_processor.py: the bounded history              *)
(***************************************************************************)

\* deque(maxlen=n): ValueError for a negative n
deque_new(maxlen) ==
    IF maxlen < 0 THEN [exc |-> "ValueError", d |-> <<>>] ELSE [exc |-> "", d |-> <<>>]

\* append on a deque that ignores its maxlen
deque_append_unbounded(d, maxlen, x) == Append(d, x)

\* d.append(x) on a deque with the given maxlen: when the deque is full the
\* item at the left end is discarded; with maxlen 0 nothing is ever held
deque_append(d, maxlen, x) ==
    IF maxlen = 0 THEN d
    ELSE IF Len(d) = maxlen THEN Append(Tail(d), x)
    ELSE Append(d, x)

HistorySizes == -1 .. MaxHistory
SignalValues == { Fin(1), Fin(2), Fin(3) }

SignalInit ==
    /\ WalletInit
    /\ ScoreOff
    /\ SessionOff
    /\ RepeatOff
    /\ FetchOff
    /\ VeilOff
    /\ spSession = "none"
    /\ history_size = 0
    /\ history = <<>>
    /\ stored = <<>>
    /\ utcnow = 0

\* processor = SignalProcessor(history_size=n)
SpConstruct(n) ==
    /\ spSession = "none"
    /\ LET r == deque_new(n)
       IN  /\ spSession' = IF r.exc = "" THEN "live" ELSE "failed"
           /\ history' = r.d
    /\ history_size' = n
    /\ UNCHANGED <<stored, utcnow>>
    /\ UNCHANGED <<walletVars, scoreVars, sessionVars, repeatVars, fetchVars, veilVars>>

\* processor.store_signal(value), the clock having advanced by dt
StoreSignal(value, dt) ==
    /\ spSession = "live"
    /\ Len(stored) < MaxStores
    /\ utcnow' = utcnow + dt
    /\ history' = deque_append(history, history_size, <<utcnow', value>>)
    /\ stored' = Append(stored, value)
    /\ UNCHANGED <<spSession, history_size>>
    /\ UNCHANGED <<walletVars, scoreVars, sessionVars, repeatVars, fetchVars, veilVars>>

SignalNext ==
    \/ \E n \in HistorySizes : SpConstruct(n)
    \/ \E value \in SignalValues, dt \in { 0, 1 } : StoreSignal(value, dt)

SignalSpec == SignalInit /\ [][SignalNext]_vars

\* the last n items of a sequence, all of it when it is shorter
LastN(s, n) == IF Len(s) <= n THEN s ELSE SubSeq(s, Len(s) - n + 1, Len(s))

\* C29: after any sequence of store_signal calls the history holds at most
\* history_size entries, and their values are the most recently stored
\* values in the order they were stored: storing into a full history evicts
\* the oldest entry and no other.
C29_HistoryBounded ==
    spSession = "live" =>
        /\ Len(history) <= history_size
        /\ [i \in 1..Len(history) |-> history[i][2]] = LastN(stored, history_size)
        /\ \A i \in 1..Len(history) - 1 : history[i][1] <= history[i + 1][1]

\* a full history of two entries after three stores: the first was evicted
C29_Witness ==
    /\ spSession = "live"
    /\ history_size = 2
    /\ stored = <<Fin(1), Fin(2), Fin(3)>>
    /\ Len(history) = 2
    /\ history[1][2] = Fin(2)
    /\ history[2][2] = Fin(3)

====
